---- MODULE Spec2Model ----
(***************************************************************************)
(* A model of mcpdoc's documentation server (src/mcpdoc/main.py): the      *)
(* source list, the allowed-origins set, the allowed-local-files set and   *)
(* the six tools create_server registers.  Strings are sequences of        *)
(* one-character strings, so that prefix tests, substring tests, URL       *)
(* parsing, path normalisation and the two regular expressions are         *)
(* computed character by character as the code computes them.              *)
(***************************************************************************)
EXTENDS Integers, Sequences, FiniteSets, Bags, TLC

\* ------------------------------------------------------------------------
\* Python string primitives

\* s.startswith(p)
StartsWith(s, p) ==
    /\ Len(p) <= Len(s)
    /\ \A i \in 1..Len(p) : s[i] = p[i]

\* s[i:] with a 0-based start index i (Python slice)
Drop(s, i) == IF i >= Len(s) THEN << >> ELSE SubSeq(s, i + 1, Len(s))

\* s[:i] with a 0-based end index i (Python slice)
Take(s, i) == IF i <= 0 THEN << >> ELSE SubSeq(s, 1, IF i > Len(s) THEN Len(s) ELSE i)

\* q in s  (substring test on str)
Contains(s, q) ==
    \E i \in 0..Len(s) : StartsWith(Drop(s, i), q)

\* x in lst  (membership in a Python list)
InList(x, lst) == \E i \in 1..Len(lst) : lst[i] = x

\* Characters str.strip() and the regex class \s treat as whitespace
Whitespace == {" ", "\n", "\t"}

RECURSIVE LStrip(_)
LStrip(s) ==
    IF s # << >> /\ Head(s) \in Whitespace THEN LStrip(Tail(s)) ELSE s

RECURSIVE RStripSet(_, _)
RStripSet(s, cs) ==
    IF s # << >> /\ s[Len(s)] \in cs THEN RStripSet(Take(s, Len(s) - 1), cs) ELSE s

\* s.strip()
Strip(s) == RStripSet(LStrip(s), Whitespace)

\* s.rstrip(')')
RStripParen(s) == RStripSet(s, {")"})

\* The least member of a non-empty set of integers
Least(S) == CHOOSE i \in S : \A j \in S : i <= j

\* Least 0-based index i >= from with s[i] in cs, or Len(s) when there is none
FindAny(s, cs, from) ==
    LET hits == {i \in from..(Len(s) - 1) : s[i + 1] \in cs}
    IN  IF hits = {} THEN Len(s) ELSE Least(hits)

\* s.startswith(p, i) with a 0-based start index i
StartsWithAt(s, i, p) ==
    /\ i + Len(p) <= Len(s)
    /\ \A k \in 1..Len(p) : s[i + k] = p[k]

\* ------------------------------------------------------------------------
\* Literals of the source

HTTP_COLON  == <<"h", "t", "t", "p", ":">>
HTTPS_COLON == <<"h", "t", "t", "p", "s", ":">>
HTTP        == <<"h", "t", "t", "p">>
HTTPS       == <<"h", "t", "t", "p", "s">>
SLASH       == <<"/">>
SLASHSLASH  == <<"/", "/">>
COLON_SS    == <<":", "/", "/">>
FILE_SS     == <<"f", "i", "l", "e", ":", "/", "/">>
HREF_EQ_Q   == <<"h", "r", "e", "f", "=", "\"">>
STAR        == <<"*">>

\* ------------------------------------------------------------------------
\* urllib.parse.urlparse, as far as extract_domain reads it

Letters == {"a", "b", "d", "e", "f", "h", "i", "l", "p", "r", "s", "t", "w", "x", "z",
            "H", "T", "P", "S"}
SchemeChars == Letters \cup {"+", "-", "."}

LowerChar(c) ==
    CASE c = "H" -> "h" [] c = "T" -> "t" [] c = "P" -> "p" [] c = "S" -> "s"
      [] OTHER -> c

Lower(s) == [i \in 1..Len(s) |-> LowerChar(s[i])]

\* [scheme, rest]: the scheme is what precedes the first ':' when that is a
\* letter followed by scheme characters; it is lower-cased
SplitScheme(url) ==
    LET i == FindAny(url, {":"}, 0)
    IN  IF /\ i < Len(url)
           /\ i > 0
           /\ url[1] \in Letters
           /\ \A k \in 1..i : url[k] \in SchemeChars
        THEN [scheme |-> Lower(Take(url, i)), rest |-> Drop(url, i + 1)]
        ELSE [scheme |-> << >>, rest |-> url]

\* netloc: after a leading '//', up to the first of '/', '?', '#'
Netloc(rest) ==
    IF StartsWith(rest, SLASHSLASH)
    THEN SubSeq(rest, 3, FindAny(rest, {"/", "?", "#"}, 2))
    ELSE << >>

extract_domain(url) ==
    LET p == SplitScheme(url)
    IN  p.scheme \o COLON_SS \o Netloc(p.rest) \o SLASH

_is_http_or_https(url) ==
    StartsWith(url, HTTP_COLON) \/ StartsWith(url, HTTPS_COLON)

\* ------------------------------------------------------------------------
\* os.path.abspath (posixpath), as _normalize_path uses it

\* The working directory of the process: os.getcwd()
Cwd == <<"/", "w">>

\* s.split('/')
RECURSIVE SplitSlash(_)
SplitSlash(s) ==
    LET i == FindAny(s, {"/"}, 0)
    IN  IF i >= Len(s) THEN <<s>>
        ELSE <<Take(s, i)>> \o SplitSlash(Drop(s, i + 1))

\* '/'.join(comps)
RECURSIVE JoinSlash(_)
JoinSlash(comps) ==
    IF comps = << >> THEN << >>
    ELSE IF Len(comps) = 1 THEN comps[1]
    ELSE comps[1] \o SLASH \o JoinSlash(Tail(comps))

DOT    == <<".">>
DOTDOT == <<".", ".">>

\* The loop of posixpath.normpath over the components, new_comps in acc
RECURSIVE NormComps(_, _, _)
NormComps(comps, acc, initial_slashes) ==
    IF comps = << >> THEN acc
    ELSE LET comp == Head(comps)
             rest == Tail(comps)
         IN  IF comp = << >> \/ comp = DOT
             THEN NormComps(rest, acc, initial_slashes)
             ELSE IF \/ comp # DOTDOT
                     \/ (initial_slashes = 0 /\ acc = << >>)
                     \/ (acc # << >> /\ acc[Len(acc)] = DOTDOT)
             THEN NormComps(rest, Append(acc, comp), initial_slashes)
             ELSE IF acc # << >>
             THEN NormComps(rest, Take(acc, Len(acc) - 1), initial_slashes)
             ELSE NormComps(rest, acc, initial_slashes)

\* posixpath.normpath
normpath(path) ==
    IF path = << >> THEN DOT
    ELSE LET initial_slashes ==
                 IF ~StartsWith(path, SLASH) THEN 0
                 ELSE IF StartsWith(path, SLASHSLASH)
                         /\ ~StartsWith(path, <<"/", "/", "/">>) THEN 2
                 ELSE 1
             joined == JoinSlash(NormComps(SplitSlash(path), << >>, initial_slashes))
             out == IF initial_slashes = 2 THEN SLASHSLASH \o joined
                    ELSE IF initial_slashes = 1 THEN SLASH \o joined
                    ELSE joined
         IN  IF out = << >> THEN DOT ELSE out

\* posixpath.join(a, b) for an absolute directory a
pathjoin(a, b) ==
    IF StartsWith(b, SLASH) THEN b
    ELSE IF a = << >> \/ a[Len(a)] = "/" THEN a \o b
    ELSE a \o SLASH \o b

\* posixpath.abspath
abspath(path) ==
    normpath(IF StartsWith(path, SLASH) THEN path ELSE pathjoin(Cwd, path))

_normalize_path(path) ==
    IF StartsWith(path, FILE_SS) THEN abspath(Drop(path, 7)) ELSE abspath(path)

\* ------------------------------------------------------------------------
\* The two regular expressions of the discovery tools (re.findall scans left
\* to right and resumes after each match)

\* re.findall(r'href="([^"]*)"', content)
RECURSIVE FindHrefs(_)
FindHrefs(content) ==
    LET open == Len(HREF_EQ_Q)
        starts == {i \in 0..(Len(content) - 1) :
                      /\ StartsWithAt(content, i, HREF_EQ_Q)
                      /\ FindAny(content, {"\""}, i + open) < Len(content)}
    IN  IF starts = {} THEN << >>
        ELSE LET i == Least(starts)
                 q == FindAny(content, {"\""}, i + open)
             IN  <<SubSeq(content, i + open + 1, q)>> \o FindHrefs(Drop(content, q + 1))

\* Characters the class [^\s\)\]] excludes
UrlStop == Whitespace \cup {")", "]"}

\* Length of the 'https?://' match at 0-based index i of s, or 0
SchemePrefixLen(s, i) ==
    IF StartsWithAt(s, i, HTTPS \o COLON_SS) THEN Len(HTTPS) + 3
    ELSE IF StartsWithAt(s, i, HTTP \o COLON_SS) THEN Len(HTTP) + 3
    ELSE 0

\* re.findall(r'https?://[^\s\)\]]+', content)
RECURSIVE FindTextUrls(_)
FindTextUrls(content) ==
    LET starts == {i \in 0..(Len(content) - 1) :
                      LET n == SchemePrefixLen(content, i)
                      IN  n > 0 /\ FindAny(content, UrlStop, i + n) > i + n}
    IN  IF starts = {} THEN << >>
        ELSE LET i == Least(starts)
                 e == FindAny(content, UrlStop, i + SchemePrefixLen(content, i))
             IN  <<SubSeq(content, i + 1, e)>> \o FindTextUrls(Drop(content, e))

\* The filter loop without its same-domain test
RECURSIVE FilterUrls_AnyOrigin(_, _, _)
FilterUrls_AnyOrigin(found, available_urls, llms_domain) ==
    IF found = << >> THEN available_urls
    ELSE LET url == RStripParen(Strip(Head(found)))
         IN  IF StartsWith(url, HTTP) /\ ~InList(url, available_urls)
             THEN FilterUrls_AnyOrigin(Tail(found), Append(available_urls, url), llms_domain)
             ELSE FilterUrls_AnyOrigin(Tail(found), available_urls, llms_domain)

\* The filter loop both discovery tools run over html_urls + text_urls
RECURSIVE FilterUrls(_, _, _)
FilterUrls(found, available_urls, llms_domain) ==
    IF found = << >> THEN available_urls
    ELSE LET url == RStripParen(Strip(Head(found)))
         IN  IF /\ StartsWith(url, HTTP)
                /\ ~InList(url, available_urls)
                /\ StartsWith(url, llms_domain)
             THEN FilterUrls(Tail(found), Append(available_urls, url), llms_domain)
             ELSE FilterUrls(Tail(found), available_urls, llms_domain)

\* available_urls with the bare-URL pass ahead of the link pass
AvailableUrls_TextFirst(llms_content, llms_domain) ==
    FilterUrls(FindTextUrls(llms_content) \o FindHrefs(llms_content), << >>, llms_domain)

\* available_urls of query_external_docs_smart and of list_external_docs
AvailableUrls(llms_content, llms_domain) ==
    FilterUrls(FindHrefs(llms_content) \o FindTextUrls(llms_content), << >>, llms_domain)

\* matching_urls: the candidates that contain the query
RECURSIVE MatchingUrls(_, _)
MatchingUrls(available_urls, query) ==
    IF available_urls = << >> THEN << >>
    ELSE IF Contains(Head(available_urls), query)
    THEN <<Head(available_urls)>> \o MatchingUrls(Tail(available_urls), query)
    ELSE MatchingUrls(Tail(available_urls), query)

\* ------------------------------------------------------------------------
\* The strings the tools are called with and the transport answers with

U_AL   == HTTPS \o COLON_SS \o <<"a", "/", "l">>
U_AS   == HTTPS \o COLON_SS \o <<"a", "/", "s">>
U_AT   == HTTPS \o COLON_SS \o <<"a", "/", "t">>
U_ASX  == HTTPS \o COLON_SS \o <<"a", "/", "s", "x">>
U_BL   == HTTPS \o COLON_SS \o <<"b", "/", "l">>
U_BS   == HTTPS \o COLON_SS \o <<"b", "/", "s">>
U_UPAL == <<"H", "T", "T", "P", "S">> \o COLON_SS \o <<"a", "/", "l">>
O_B    == HTTPS \o COLON_SS \o <<"b">>

P_FILE == FILE_SS \o <<"/", "d", "/", "l">>
P_REL  == <<"d", "/", "l">>
P_DOTS == <<"/", "w", "/", "x", "/", ".", ".", "/", "d", "/", "l">>
P_GONE == <<"/", "z">>

N_X == <<"x">>
N_Z == <<"z">>
\* The names list_doc_sources shows for the sources configured without one
N_ORIGIN == extract_domain(U_AL)
N_PATH == _normalize_path(P_REL)

Q_PATH == <<"/", "s">>
Q_TEXT == <<"s">>
Q_MISS == <<"/", "S">>

SP == <<" ">>

\* A page of the first origin, and a line of an index that names it
U_Page(ch) == HTTPS \o COLON_SS \o <<"a", "/", ch>>
Line(ch) == U_Page(ch) \o <<"\n">>

\* An index of eleven pages of the first origin, one bare URL a line
B_ELEVEN ==
    Line("0") \o Line("1") \o Line("2") \o Line("3") \o Line("4") \o Line("5")
        \o Line("6") \o Line("7") \o Line("8") \o Line("9") \o Line("-")

\* Index bodies: a same-origin link and a cross-origin bare URL; bare URLs with
\* trailing brackets followed by a link to a page the second of them names; a
\* padded link to a second page, then the first; eleven bare URLs; a
\* cross-origin link only
Bodies ==
    { HREF_EQ_Q \o U_AS \o <<"\"">> \o SP \o U_BS,
      U_ASX \o <<")">> \o SP \o U_AS \o <<"]">> \o SP \o HREF_EQ_Q \o U_AS \o <<"\"">>,
      HREF_EQ_Q \o SP \o U_AT \o SP \o <<"\"">> \o SP \o U_AS \o <<"\n">>,
      B_ELEVEN,
      HREF_EQ_Q \o U_BS \o <<"\"">> }

RemoteRefs == {U_AS, U_BL}
LocalRefs  == {P_FILE, P_REL, P_DOTS}
IndexUrls  == {U_UPAL, U_BL}
SmartIndexUrls == {U_AL}
Queries    == {Q_PATH, Q_TEXT, Q_MISS}
AddNames   == {N_X}
AddUrls    == {U_BL}
RemoveNames == {N_X, N_Z, N_ORIGIN, N_PATH}

\* available_urls for every index URL and body above, computed once
AvailableUrlsOf ==
    [u \in IndexUrls \cup SmartIndexUrls |->
        [b \in Bodies |-> AvailableUrls(b, extract_domain(u))]]

\* Paths for which os.path.exists is true when the server is constructed
ExistingFiles == {_normalize_path(P_FILE), _normalize_path(P_REL)}

\* The arguments create_server is called with
Configs ==
    { [doc_sources |-> << [name |-> N_X, llms_txt |-> U_AL] >>,
       allowed_domains |-> << >>],
      [doc_sources |-> << [llms_txt |-> U_AL], [name |-> N_Z, llms_txt |-> P_FILE] >>,
       allowed_domains |-> << O_B >>],
      [doc_sources |-> << [name |-> N_X, llms_txt |-> U_AL], [llms_txt |-> P_REL] >>,
       allowed_domains |-> << STAR, extract_domain(U_BL) >>],
      [doc_sources |-> << [name |-> N_X, llms_txt |-> P_GONE] >>,
       allowed_domains |-> << >>] }

\* Cap on the length of the source list (add_doc_source is not offered beyond it)
MaxSources == 3
\* Cap on the number of tool calls in flight at once
MaxCalls == 2

\* ------------------------------------------------------------------------
\* create_server: the state the tools close over

\* entry["llms_txt"] of the entries for which the test holds, in order
RECURSIVE RemoteSources(_)
RemoteSources(srcs) ==
    IF srcs = << >> THEN << >>
    ELSE IF _is_http_or_https(Head(srcs).llms_txt)
    THEN <<Head(srcs)>> \o RemoteSources(Tail(srcs))
    ELSE RemoteSources(Tail(srcs))

RECURSIVE LocalSources(_)
LocalSources(srcs) ==
    IF srcs = << >> THEN << >>
    ELSE IF ~_is_http_or_https(Head(srcs).llms_txt)
    THEN <<Head(srcs)>> \o LocalSources(Tail(srcs))
    ELSE LocalSources(Tail(srcs))

\* FALSE when create_server raises FileNotFoundError
LocalSourcesExist(srcs) ==
    \A i \in 1..Len(LocalSources(srcs)) :
        _normalize_path(LocalSources(srcs)[i].llms_txt) \in ExistingFiles

\* domains built from allowed_domains alone whenever that list is given
InitialDomains_ExtrasOnly(srcs, allowed_domains) ==
    LET remote == RemoteSources(srcs)
        fromSources == {extract_domain(remote[i].llms_txt) : i \in 1..Len(remote)}
    IN  IF allowed_domains # << >>
        THEN IF InList(STAR, allowed_domains)
             THEN {STAR}
             ELSE {allowed_domains[i] : i \in 1..Len(allowed_domains)}
        ELSE fromSources

\* domains as create_server leaves it
InitialDomains(srcs, allowed_domains) ==
    LET remote == RemoteSources(srcs)
        fromSources == {extract_domain(remote[i].llms_txt) : i \in 1..Len(remote)}
    IN  IF allowed_domains # << >>
        THEN IF InList(STAR, allowed_domains)
             THEN {STAR}
             ELSE fromSources \cup {allowed_domains[i] : i \in 1..Len(allowed_domains)}
        ELSE fromSources

\* allowed_local_files as create_server leaves it
InitialLocalFiles(srcs) ==
    LET local == LocalSources(srcs)
    IN  {_normalize_path(local[i].llms_txt) : i \in 1..Len(local)}

\* ------------------------------------------------------------------------
\* State

VARIABLES
    config,               \* the arguments create_server was called with
    doc_sources,          \* the source list the tools share
    domains,              \* the allowed origins
    allowed_local_files,  \* the allowed local paths
    calls,                \* the tool calls suspended at an await (a bag)
    event                 \* the last thing a tool did that its caller or the
                          \* network can see: a GET it issued or its outcome

vars == <<config, doc_sources, domains, allowed_local_files, calls, event>>

NONE == << >>

Ev(type, tool, kind, arg, query, target, items, allowed, read) ==
    [type |-> type, tool |-> tool, kind |-> kind, arg |-> arg, query |-> query,
     target |-> target, items |-> items, allowed |-> allowed, read |-> read,
     body |-> NONE]

\* The event of a step that had the index body llms_content in hand
WithBody(ev, llms_content) == [ev EXCEPT !.body = llms_content]

\* A GET handed to httpx_client.get; allowed records whether some member of
\* domains is a prefix of the URL at that moment
Get(tool, kind, arg, query, url) ==
    Ev("get", tool, kind, arg, query, url, << >>,
       \E d \in domains : StartsWith(url, d), NONE)

\* A value the tool returns
Reply(tool, kind, arg, query, target, items) ==
    Ev("reply", tool, kind, arg, query, target, items, FALSE, NONE)

\* An exception that leaves the tool
Raise(tool, kind, arg, query) ==
    Ev("raise", tool, kind, arg, query, NONE, << >>, FALSE, NONE)

Call(pc, url, query, name, target) ==
    [pc |-> pc, url |-> url, query |-> query, name |-> name, target |-> target]

InFlight == BagToSet(calls)
Suspend(c) == calls (+) SetToBag({c})
Resume(c)  == calls (-) SetToBag({c})
CanSuspend == BagCardinality(calls) < MaxCalls

\* The response bodies an awaited GET that ends this way can carry
BodiesOf(outcome) == IF outcome = "ok" THEN Bodies ELSE {NONE}

\* How an awaited httpx_client.get followed by raise_for_status can end
Outcomes == {"ok", "status_error", "request_error", "other_error", "cancelled"}

\* httpx.HTTPStatusError or httpx.RequestError
IsHttpxError(outcome) == outcome \in {"status_error", "request_error"}

Init ==
    \E cfg \in Configs :
        /\ LocalSourcesExist(cfg.doc_sources)
        /\ config = cfg
        /\ doc_sources = cfg.doc_sources
        /\ domains = InitialDomains(cfg.doc_sources, cfg.allowed_domains)
        /\ allowed_local_files = InitialLocalFiles(cfg.doc_sources)
        /\ calls = EmptyBag
        /\ event = Ev("none", "none", "none", NONE, NONE, NONE, << >>, FALSE, NONE)

\* ------------------------------------------------------------------------
\* list_doc_sources

SourceLine(entry) ==
    IF _is_http_or_https(entry.llms_txt)
    THEN [name |-> IF "name" \in DOMAIN entry THEN entry.name
                   ELSE extract_domain(entry.llms_txt),
          label |-> "URL", ref |-> entry.llms_txt]
    ELSE [name |-> IF "name" \in DOMAIN entry THEN entry.name
                   ELSE _normalize_path(entry.llms_txt),
          label |-> "Path", ref |-> _normalize_path(entry.llms_txt)]

list_doc_sources ==
    /\ event' = Reply("list_doc_sources", "sources", NONE, NONE, NONE,
                      [i \in 1..Len(doc_sources) |-> SourceLine(doc_sources[i])])
    /\ UNCHANGED <<config, doc_sources, domains, allowed_local_files, calls>>

\* ------------------------------------------------------------------------
\* fetch_docs

\* The path test answering yes to every path
PathAllowed_Any(abs_path, files) == TRUE

\* The membership test on the normalised path
PathAllowed(abs_path, files) == abs_path \in files

\* The origin test answering yes to every URL
OriginAllowed_Any(url, doms) == TRUE

\* The origin test: the wildcard, or some allowed domain is a prefix
OriginAllowed(url, doms) ==
    STAR \in doms \/ \E d \in doms : StartsWith(url, d)

\* The handler up to its return, its raise or its await
fetch_docs(url) ==
    /\ IF ~_is_http_or_https(url)
       THEN LET abs_path == _normalize_path(url)
            IN  IF ~PathAllowed(abs_path, allowed_local_files)
                THEN /\ event' = Raise("fetch_docs", "ValueError", url, NONE)
                     /\ calls' = calls
                ELSE /\ \E readOk \in BOOLEAN :
                          event' = [Reply("fetch_docs",
                                          IF readOk THEN "content" ELSE "read_error",
                                          url, NONE, abs_path, << >>)
                                    EXCEPT !.read = abs_path]
                     /\ calls' = calls
       ELSE IF ~OriginAllowed(url, domains)
            THEN /\ event' = Reply("fetch_docs", "origin_not_allowed", url, NONE, NONE, << >>)
                 /\ calls' = calls
            ELSE /\ CanSuspend
                 /\ event' = Get("fetch_docs", "fetch", url, NONE, url)
                 /\ calls' = Suspend(Call("fetch_get", url, NONE, NONE, url))
    /\ UNCHANGED <<config, doc_sources, domains, allowed_local_files>>

\* The handler from the end of its await
fetch_docs_resume(c, outcome) ==
    /\ c.pc = "fetch_get"
    /\ calls' = Resume(c)
    /\ event' = IF outcome = "ok"
                THEN Reply("fetch_docs", "content", c.url, NONE, c.url, << >>)
                ELSE IF IsHttpxError(outcome)
                THEN Reply("fetch_docs", "http_error", c.url, NONE, c.url, << >>)
                ELSE IF outcome = "cancelled"
                THEN Raise("fetch_docs", "CancelledError", c.url, NONE)
                ELSE Raise("fetch_docs", "Exception", c.url, NONE)
    /\ UNCHANGED <<config, doc_sources, domains, allowed_local_files>>

\* ------------------------------------------------------------------------
\* query_external_docs_smart

\* Every query taken for a URL path
IsPathQuery_Always(query) == TRUE

\* The query "looks like a URL path"
IsPathQuery(query) == StartsWith(query, SLASH) \/ StartsWith(query, HTTP)

\* What the handler decides once the index has arrived: a reply, or the
\* target of its second GET
SmartDecision(llms_txt_url, query, llms_content) ==
    LET llms_domain == extract_domain(llms_txt_url)
        available_urls == AvailableUrlsOf[llms_txt_url][llms_content]
        matching_urls == MatchingUrls(available_urls, query)
    IN  IF available_urls = << >>
        THEN [kind |-> "no_urls", target |-> NONE, items |-> << >>]
        ELSE IF IsPathQuery(query)
        THEN IF matching_urls = << >>
             THEN [kind |-> IF Len(available_urls) > 10 THEN "no_match_more"
                            ELSE "no_match",
                   target |-> NONE, items |-> Take(available_urls, 10)]
             ELSE IF ~StartsWith(matching_urls[1], llms_domain)
             THEN [kind |-> "security_error", target |-> matching_urls[1],
                   items |-> << >>]
             ELSE [kind |-> "target", target |-> matching_urls[1], items |-> << >>]
        ELSE [kind |-> "listing", target |-> NONE, items |-> available_urls]

query_external_docs_smart(llms_txt_url, query) ==
    /\ CanSuspend
    /\ event' = Get("query_external_docs_smart", "index", llms_txt_url, query, llms_txt_url)
    /\ calls' = Suspend(Call("smart_index", llms_txt_url, query, NONE, NONE))
    /\ UNCHANGED <<config, doc_sources, domains, allowed_local_files>>

\* What every except clause of a discovery tool or add_doc_source does with a
\* failed await
Failed(tool, c, outcome, httpxKind, otherKind) ==
    IF IsHttpxError(outcome) THEN Reply(tool, httpxKind, c.url, c.query, c.target, << >>)
    ELSE IF outcome = "cancelled" THEN Raise(tool, "CancelledError", c.url, c.query)
    ELSE Reply(tool, otherKind, c.url, c.query, c.target, << >>)

\* From the end of the first await to the return or the second await
smart_index_resume(c, outcome, llms_content) ==
    /\ c.pc = "smart_index"
    /\ IF outcome = "ok"
       THEN LET d == SmartDecision(c.url, c.query, llms_content)
            IN  IF d.kind = "target"
                THEN /\ event' = WithBody(Get("query_external_docs_smart", "target",
                                              c.url, c.query, d.target),
                                          llms_content)
                     /\ calls' = Resume(c) (+)
                            SetToBag({Call("smart_target", c.url, c.query, NONE, d.target)})
                ELSE /\ event' = WithBody(Reply("query_external_docs_smart", d.kind,
                                                c.url, c.query, d.target, d.items),
                                          llms_content)
                     /\ calls' = Resume(c)
       ELSE /\ event' = Failed("query_external_docs_smart", c, outcome,
                               "fetch_error", "unexpected_error")
            /\ calls' = Resume(c)
    /\ UNCHANGED <<config, doc_sources, domains, allowed_local_files>>

\* From the end of the second await
smart_target_resume(c, outcome) ==
    /\ c.pc = "smart_target"
    /\ calls' = Resume(c)
    /\ event' = IF outcome = "ok"
                THEN Reply("query_external_docs_smart", "documentation",
                           c.url, c.query, c.target, << >>)
                ELSE Failed("query_external_docs_smart", c, outcome,
                            "fetch_error", "unexpected_error")
    /\ UNCHANGED <<config, doc_sources, domains, allowed_local_files>>

\* ------------------------------------------------------------------------
\* list_external_docs

list_external_docs(llms_txt_url) ==
    /\ CanSuspend
    /\ event' = Get("list_external_docs", "index", llms_txt_url, NONE, llms_txt_url)
    /\ calls' = Suspend(Call("list_index", llms_txt_url, NONE, NONE, NONE))
    /\ UNCHANGED <<config, doc_sources, domains, allowed_local_files>>

list_index_resume(c, outcome, llms_content) ==
    /\ c.pc = "list_index"
    /\ calls' = Resume(c)
    /\ event' =
         IF outcome = "ok"
         THEN LET available_urls == AvailableUrlsOf[c.url][llms_content]
              IN  IF available_urls = << >>
                  THEN WithBody(Reply("list_external_docs", "no_urls", c.url, NONE,
                                      NONE, << >>), llms_content)
                  ELSE WithBody(Reply("list_external_docs", "listing", c.url, NONE,
                                      NONE, available_urls), llms_content)
         ELSE Failed("list_external_docs", c, outcome, "fetch_error", "unexpected_error")
    /\ UNCHANGED <<config, doc_sources, domains, allowed_local_files>>

\* ------------------------------------------------------------------------
\* add_doc_source

\* doc_sources.append(new_source)
AppendSource(srcs, name, llms_txt_url) ==
    Append(srcs, [name |-> name, llms_txt |-> llms_txt_url, description |-> << >>])

\* The new origin replacing the allowed origins instead of joining them
AddDomain_Replace(doms, llms_txt_url) ==
    IF _is_http_or_https(llms_txt_url)
    THEN IF STAR \notin doms THEN {extract_domain(llms_txt_url)} ELSE doms
    ELSE doms

\* The new origin added without the wildcard test
AddDomain_NoWildcardTest(doms, llms_txt_url) ==
    IF _is_http_or_https(llms_txt_url)
    THEN doms \cup {extract_domain(llms_txt_url)}
    ELSE doms

\* The allowed origins after a source with this URL has been appended
AddDomain(doms, llms_txt_url) ==
    IF _is_http_or_https(llms_txt_url)
    THEN IF STAR \notin doms THEN doms \cup {extract_domain(llms_txt_url)} ELSE doms
    ELSE doms

\* The source appended whatever the validating GET came to
SourcesAfterValidation_Always(srcs, name, llms_txt_url, outcome) ==
    AppendSource(srcs, name, llms_txt_url)

\* The source list after the validating GET has ended
SourcesAfterValidation(srcs, name, llms_txt_url, outcome) ==
    IF outcome = "ok" THEN AppendSource(srcs, name, llms_txt_url) ELSE srcs

\* The origin of a validated source never added
DomainsAfterValidation_Skip(doms, llms_txt_url, outcome) == doms

\* The allowed origins after the validating GET has ended
DomainsAfterValidation(doms, llms_txt_url, outcome) ==
    IF outcome = "ok" THEN AddDomain(doms, llms_txt_url) ELSE doms

AddsInFlight ==
    LET adds == {c \in InFlight : c.pc = "add_get"}
    IN  BagCardinality([c \in adds |-> calls[c]])

add_doc_source(name, llms_txt_url) ==
    /\ CanSuspend
    /\ Len(doc_sources) + AddsInFlight < MaxSources
    /\ event' = Get("add_doc_source", "validate", llms_txt_url, NONE, llms_txt_url)
    /\ calls' = Suspend(Call("add_get", llms_txt_url, NONE, name, NONE))
    /\ UNCHANGED <<config, doc_sources, domains, allowed_local_files>>

add_doc_source_resume(c, outcome) ==
    /\ c.pc = "add_get"
    /\ calls' = Resume(c)
    /\ doc_sources' = SourcesAfterValidation(doc_sources, c.name, c.url, outcome)
    /\ domains' = DomainsAfterValidation(domains, c.url, outcome)
    /\ event' = IF outcome = "ok"
                THEN Reply("add_doc_source", "added", c.name, NONE, c.url, << >>)
                ELSE IF IsHttpxError(outcome)
                THEN Reply("add_doc_source", "validate_error", c.name, NONE, c.url, << >>)
                ELSE IF outcome = "cancelled"
                THEN Raise("add_doc_source", "CancelledError", c.name, NONE)
                ELSE Reply("add_doc_source", "add_error", c.name, NONE, c.url, << >>)
    /\ UNCHANGED <<config, allowed_local_files>>

\* ------------------------------------------------------------------------
\* remove_doc_source

UNNAMED == <<"u", "n", "n", "a", "m", "e", "d">>

\* The comparison made with the name the source is listed under
NameIs_Derived(source, name) == SourceLine(source).name = name

\* source.get("name") == name
NameIs(source, name) == "name" \in DOMAIN source /\ source.name = name

\* The loop popping the last entry with the name instead of the first
RemoveIndex_Last(srcs, name) ==
    IF \E i \in 1..Len(srcs) : NameIs(srcs[i], name)
    THEN CHOOSE i \in 1..Len(srcs) :
             /\ NameIs(srcs[i], name)
             /\ \A j \in (i + 1)..Len(srcs) : ~NameIs(srcs[j], name)
    ELSE 0

\* The index the loop pops (1-based), or 0 when it runs to its end
RemoveIndex(srcs, name) ==
    IF \E i \in 1..Len(srcs) : NameIs(srcs[i], name)
    THEN CHOOSE i \in 1..Len(srcs) :
             /\ NameIs(srcs[i], name)
             /\ \A j \in 1..(i - 1) : ~NameIs(srcs[j], name)
    ELSE 0

\* doc_sources after doc_sources.pop(i - 1)
PopAt(srcs, i) == SubSeq(srcs, 1, i - 1) \o SubSeq(srcs, i + 1, Len(srcs))

\* [source.get("name", "unnamed") for source in doc_sources]
AvailableNames(srcs) ==
    [i \in 1..Len(srcs) |->
        IF "name" \in DOMAIN srcs[i] THEN srcs[i].name ELSE UNNAMED]

remove_doc_source(name) ==
    LET i == RemoveIndex(doc_sources, name)
    IN  /\ IF i > 0
           THEN /\ doc_sources' = PopAt(doc_sources, i)
                /\ event' = Reply("remove_doc_source", "removed", name, NONE,
                                  doc_sources[i].llms_txt, << >>)
           ELSE /\ doc_sources' = doc_sources
                /\ event' = Reply("remove_doc_source", "not_found", name, NONE, NONE,
                                  AvailableNames(doc_sources))
        /\ UNCHANGED <<config, domains, allowed_local_files, calls>>

\* ------------------------------------------------------------------------
\* Specification

Next ==
    \/ list_doc_sources
    \/ \E url \in RemoteRefs \cup LocalRefs : fetch_docs(url)
    \/ \E c \in InFlight, o \in Outcomes : fetch_docs_resume(c, o)
    \/ \E u \in SmartIndexUrls, q \in Queries : query_external_docs_smart(u, q)
    \/ \E c \in InFlight, o \in Outcomes : \E b \in BodiesOf(o) : smart_index_resume(c, o, b)
    \/ \E c \in InFlight, o \in Outcomes : smart_target_resume(c, o)
    \/ \E u \in IndexUrls : list_external_docs(u)
    \/ \E c \in InFlight, o \in Outcomes : \E b \in BodiesOf(o) : list_index_resume(c, o, b)
    \/ \E n \in AddNames, u \in AddUrls : add_doc_source(n, u)
    \/ \E c \in InFlight, o \in Outcomes : add_doc_source_resume(c, o)
    \/ \E n \in RemoveNames : remove_doc_source(n)

Spec == Init /\ [][Next]_vars

\* ------------------------------------------------------------------------
\* Properties

\* create_server was given the wildcard among allowed_domains
BuiltWithWildcard == InList(STAR, config.allowed_domains)

\* Some member of the allowed origins is a prefix of the URL
HasAllowedPrefix(url) == \E d \in domains : StartsWith(url, d)

IsDiscovery(tool) == tool \in {"query_external_docs_smart", "list_external_docs"}

\* C1: in a server built without the wildcard, every GET a tool issues goes to
\* a URL that has a member of the allowed origins as a prefix when it is issued.
C1_EveryGetWithinAllowList ==
    ~BuiltWithWildcard => (event.type = "get" => event.allowed)

\* C2: without the wildcard, fetch_docs on a remote URL issues its GET, and so
\* returns content, only for a URL with an allowed origin as a prefix; for any
\* other remote URL its outcome is the origin error and no GET.
C2_FetchOriginChecked ==
    ~BuiltWithWildcard =>
        /\ (event.tool = "fetch_docs" /\ event.type = "get") => event.allowed
        /\ (event.tool = "fetch_docs" /\ _is_http_or_https(event.arg)
                /\ ~HasAllowedPrefix(event.arg))
              => (event.type = "reply" /\ event.kind = "origin_not_allowed")
        /\ event.kind = "origin_not_allowed" => ~HasAllowedPrefix(event.arg)
        /\ \A c \in InFlight : c.pc = "fetch_get" => HasAllowedPrefix(c.url)

\* C2 witness: content came back for a URL whose origin was granted by an added
\* source that has since been removed.
C2_Witness ==
    /\ ~BuiltWithWildcard
    /\ config.allowed_domains = << >>
    /\ event.tool = "fetch_docs" /\ event.kind = "content" /\ event.arg = U_BL
    /\ \A i \in 1..Len(doc_sources) : doc_sources[i].llms_txt # U_BL

\* C3: fetch_docs on a local reference opens a file only when the normalised
\* path is in the allowed local files computed at construction, and the file
\* it opens is that path; for any other path it opens nothing.
C3_LocalReadWithinAllowSet ==
    /\ allowed_local_files = InitialLocalFiles(config.doc_sources)
    /\ (event.tool = "fetch_docs" /\ ~_is_http_or_https(event.arg)) =>
        /\ event.read # NONE =>
              /\ event.read = _normalize_path(event.arg)
              /\ event.read \in InitialLocalFiles(config.doc_sources)
        /\ event.kind = "content" => event.read # NONE
        /\ _normalize_path(event.arg) \notin allowed_local_files => event.read = NONE

\* C3 witness: a reference that only normalisation maps into the allow-set was read.
C3_Witness ==
    /\ event.tool = "fetch_docs" /\ event.kind = "content"
    /\ event.arg = P_DOTS
    /\ event.read = _normalize_path(P_REL)

\* C4: no step removes a member of the allowed origins, so a URL that passes
\* the origin test of fetch_docs passes it in every later state.
C4_AllowedOriginsOnlyGrow ==
    [][ /\ domains \subseteq domains'
        /\ \A u \in RemoteRefs : OriginAllowed(u, domains) => OriginAllowed(u, domains')
      ]_vars

\* C4 witness: a source was removed, and the origin an added source
\* contributed is still allowed although no listed source has it.
C4_Witness ==
    /\ event.tool = "remove_doc_source" /\ event.kind = "removed"
    /\ extract_domain(U_BL) \in domains
    /\ extract_domain(U_BL) \notin
           InitialDomains(config.doc_sources, config.allowed_domains)
    /\ \A i \in 1..Len(doc_sources) :
           extract_domain(doc_sources[i].llms_txt) # extract_domain(U_BL)

\* C5: built with the wildcard, the allowed origins are exactly {*} in every
\* state, and fetch_docs never answers with the origin error.
C5_WildcardAbsorbs ==
    BuiltWithWildcard =>
        /\ domains = {STAR}
        /\ event.kind # "origin_not_allowed"

\* C5 witness: with the wildcard, a source has been added and fetch_docs then
\* issued its GET for a remote URL.
C5_Witness ==
    /\ BuiltWithWildcard
    /\ Len(doc_sources) > Len(config.doc_sources)
    /\ event.tool = "fetch_docs" /\ event.type = "get" /\ event.target = U_BL

\* C6: every URL a discovery tool lists, and every target the smart query
\* fetches, starts with extract_domain of the index URL and has that origin.
C6_CandidatesSameOrigin ==
    /\ (IsDiscovery(event.tool) /\ event.type = "reply") =>
          \A i \in 1..Len(event.items) :
              /\ StartsWith(event.items[i], extract_domain(event.arg))
              /\ extract_domain(event.items[i]) = extract_domain(event.arg)
    /\ (IsDiscovery(event.tool) /\ event.kind \in {"target", "documentation"}) =>
          /\ StartsWith(event.target, extract_domain(event.arg))
          /\ extract_domain(event.target) = extract_domain(event.arg)

\* C6 witness: with the wildcard, the listing of an index whose body holds a
\* same-origin and a cross-origin URL shows the same-origin one alone.
C6_Witness ==
    /\ BuiltWithWildcard
    /\ event.tool = "list_external_docs" /\ event.kind = "listing"
    /\ event.arg = U_UPAL
    /\ \E i \in 1..Len(event.items) : event.items[i] = U_AS

\* C7: a step of add_doc_source that is not its successful completion leaves
\* the source list and the allowed origins as they were, and a source is
\* appended or an origin added only by the successful completion.
C7_FailedAddChangesNothing ==
    [][ /\ (event'.tool = "add_doc_source" /\ event'.kind # "added")
              => (doc_sources' = doc_sources /\ domains' = domains)
        /\ (Len(doc_sources') > Len(doc_sources) \/ domains' # domains)
              => (event'.tool = "add_doc_source" /\ event'.kind = "added")
      ]_vars

\* C7 witness: add_doc_source was cancelled during its validating GET.
C7_Witness ==
    /\ event.tool = "add_doc_source"
    /\ event.type = "raise" /\ event.kind = "CancelledError"

\* C8: when the query is a substring of some candidate, the smart query does
\* not answer with a candidate listing.
C8_SubstringQueryFetches ==
    (event.tool = "query_external_docs_smart" /\ event.type = "reply"
        /\ event.kind \in {"listing", "no_match", "no_match_more"})
      => ~\E i \in 1..Len(event.items) : Contains(event.items[i], event.query)

C10_PathNotAllowedIsReturned ==
    (/\ event.tool = "fetch_docs"
     /\ ~_is_http_or_https(event.arg)
     /\ _normalize_path(event.arg) \notin allowed_local_files)
      => event.type = "reply"

\* C11: in every state the allowed origins hold the wildcard, or they hold
\* extract_domain of the reference of every remote source in the source list.
C11_RemoteSourceOriginsAllowed ==
    \/ STAR \in domains
    \/ \A i \in 1..Len(doc_sources) :
           _is_http_or_https(doc_sources[i].llms_txt)
             => extract_domain(doc_sources[i].llms_txt) \in domains

\* C11 witness: without the wildcard, a remote source added at run time is
\* listed next to a configured one after a removal.
C11_Witness ==
    /\ STAR \notin domains
    /\ event.tool = "remove_doc_source" /\ event.kind = "removed"
    /\ \E i \in 1..Len(doc_sources) : doc_sources[i].llms_txt = U_BL
    /\ \E i \in 1..Len(doc_sources) : doc_sources[i].llms_txt = U_AL

\* C12: whatever other calls are suspended, a successful add appends its
\* source behind everything already listed and its origin is allowed in the
\* same step; a removal takes away one entry at most and no origin; no other
\* step changes the list or the origins; and no step ends in a state where a
\* listed remote source's origin is not allowed.
C12_NoLostOrTornUpdate ==
    [][ /\ (event'.tool = "add_doc_source" /\ event'.kind = "added") =>
              /\ Len(doc_sources') = Len(doc_sources) + 1
              /\ SubSeq(doc_sources', 1, Len(doc_sources)) = doc_sources
              /\ doc_sources'[Len(doc_sources')].name = event'.arg
              /\ doc_sources'[Len(doc_sources')].llms_txt = event'.target
              /\ _is_http_or_https(event'.target) =>
                    (STAR \in domains' \/ extract_domain(event'.target) \in domains')
        /\ event'.tool = "remove_doc_source" =>
              /\ Len(doc_sources') >= Len(doc_sources) - 1
              /\ domains' = domains
        /\ event'.tool \notin {"add_doc_source", "remove_doc_source"} =>
              (doc_sources' = doc_sources /\ domains' = domains)
        /\ \/ STAR \in domains'
           \/ \A i \in 1..Len(doc_sources') :
                  _is_http_or_https(doc_sources'[i].llms_txt)
                    => extract_domain(doc_sources'[i].llms_txt) \in domains'
      ]_vars

\* C12 witness: an add completed while another add was still suspended at its
\* validating GET, after a removal had emptied the configured list.
C12_Witness ==
    /\ event.tool = "add_doc_source" /\ event.kind = "added"
    /\ \E c \in InFlight : c.pc = "add_get"
    /\ \A i \in 1..Len(doc_sources) : doc_sources[i].llms_txt = U_BL
    /\ STAR \notin domains

\* What the two passes find in a body, links first, each value cleaned
Cleaned(body) ==
    LET found == FindHrefs(body) \o FindTextUrls(body)
    IN  [k \in 1..Len(found) |-> RStripParen(Strip(found[k]))]

\* The positions of the candidates: values of the index's origin, first seen there
CandidateIdx(found, origin) ==
    {k \in 1..Len(found) :
        /\ StartsWith(found[k], HTTP)
        /\ StartsWith(found[k], origin)
        /\ \A j \in 1..(k - 1) : found[j] # found[k]}

\* The values at the positions S, in increasing position
InOrder(found, S) ==
    [i \in 1..Cardinality(S) |->
        found[CHOOSE k \in S : Cardinality({j \in S : j <= k}) = i]]

\* The candidate list of every index URL and body: link pass before bare-URL
\* pass, first-seen order, no value twice
ExpectedCandidates ==
    [u \in IndexUrls \cup SmartIndexUrls |->
        [b \in Bodies |->
            InOrder(Cleaned(b), CandidateIdx(Cleaned(b), extract_domain(u)))]]

FreeText(query) == ~StartsWith(query, SLASH) /\ ~StartsWith(query, HTTP)

IsSmart(ev) == ev.tool = "query_external_docs_smart"

C14_PathQueryFetchesFirstMatch ==
    /\ (IsSmart(event) /\ ~FreeText(event.query) /\ event.body # NONE) =>
          LET cand == ExpectedCandidates[event.arg][event.body]
              hits == {i \in 1..Len(cand) : Contains(cand[i], event.query)}
          IN  IF cand = << >> THEN event.type = "reply" /\ event.kind = "no_urls"
              ELSE IF hits # {}
              THEN /\ event.type = "get" /\ event.kind = "target"
                   /\ event.target = cand[Least(hits)]
                   /\ Call("smart_target", event.arg, event.query, NONE, event.target)
                          \in InFlight
              ELSE /\ event.type = "reply"
                   /\ event.kind \in {"no_match", "no_match_more"}
                   /\ Len(event.items) <= 10
                   /\ event.items = SubSeq(cand, 1, Len(event.items))
                   /\ Len(event.items) = 10 \/ Len(event.items) = Len(cand)
                   /\ event.kind = "no_match_more" <=> Len(cand) > 10
    /\ (IsSmart(event) /\ event.kind = "documentation") =>
          Contains(event.target, event.query)
    /\ \A c \in InFlight : c.pc = "smart_target" =>
          \E b \in Bodies :
              LET cand == ExpectedCandidates[c.url][b]
                  hits == {i \in 1..Len(cand) : Contains(cand[i], c.query)}
              IN  hits # {} /\ c.target = cand[Least(hits)]

\* C14 witness: none of eleven candidates contains the query, and the first
\* ten are listed.
C14_Witness ==
    /\ IsSmart(event) /\ event.kind = "no_match_more"
    /\ event.query = Q_MISS
    /\ Len(event.items) = 10

HasNoName(source) == "name" \notin DOMAIN source

\* The default name of a source: origin for a remote one, normalised path
\* for a local one
DerivedName(source) ==
    IF StartsWith(source.llms_txt, HTTP_COLON) \/ StartsWith(source.llms_txt, HTTPS_COLON)
    THEN extract_domain(source.llms_txt)
    ELSE _normalize_path(source.llms_txt)

\* C15: list_doc_sources shows a source without a name under its derived
\* name; remove_doc_source, whatever name it is given, keeps every source
\* without a name, and shows each as "unnamed" in the not-found reply.
C15_UnnamedSourceNeverRemoved ==
    [][ /\ event'.tool = "list_doc_sources" =>
              /\ Len(event'.items) = Len(doc_sources)
              /\ \A k \in 1..Len(doc_sources) :
                     HasNoName(doc_sources[k]) =>
                         event'.items[k].name = DerivedName(doc_sources[k])
        /\ event'.tool = "remove_doc_source" =>
              /\ SelectSeq(doc_sources', HasNoName) = SelectSeq(doc_sources, HasNoName)
              /\ event'.kind = "removed" =>
                     \E k \in 1..Len(doc_sources) :
                         /\ ~HasNoName(doc_sources[k])
                         /\ doc_sources' = SubSeq(doc_sources, 1, k - 1)
                                             \o SubSeq(doc_sources, k + 1, Len(doc_sources))
              /\ event'.kind = "not_found" =>
                     /\ doc_sources' = doc_sources
                     /\ \A k \in 1..Len(doc_sources) :
                            HasNoName(doc_sources[k]) => event'.items[k] = UNNAMED
      ]_vars

\* C15 witness: remove_doc_source was given the derived name of a source that
\* has no name; the source is still there and the reply shows it as "unnamed".
C15_Witness ==
    /\ event.tool = "remove_doc_source" /\ event.kind = "not_found"
    /\ \E k \in 1..Len(doc_sources) :
           /\ HasNoName(doc_sources[k])
           /\ DerivedName(doc_sources[k]) = event.arg
           /\ event.items[k] = UNNAMED

====
